---- MODULE Spec2Model ----
(***************************************************************************)
(* Model of termion's terminal input decoder (src/event.rs).               *)
(*                                                                         *)
(* A byte source is a finite sequence of items; an item is a byte 0..255   *)
(* or ErrItem (the source yielded Err(e)).  parse_event is called with the *)
(* first byte of an event and pulls further items on demand.  One action   *)
(* models one read site of the decoder, so that the bytes captured by the  *)
(* inspect adapter can be followed read by read.                           *)
(***************************************************************************)
EXTENDS Integers, Sequences, FiniteSets, TLC

VARIABLES
    stream,   \* the byte source: items of the iterator, fixed for a run
    pos,      \* items of the source consumed so far
    pc,       \* read site the decoder is at
    item,     \* parse_event's `item`: first byte of the current call
    buf,      \* parse_event's `buf`: bytes captured by inspect
    acc,      \* the sub-decoder's local Vec (xterm buf, numbered buf, utf8 bytes, x10 b1 b2)
    c,        \* parse_csi's `c` in the numbered loop
    wrap,     \* "Char" or "Alt": what parse_utf8_char's result is wrapped in
    res,      \* try_parse_event's Result<Event, Error>
    event,    \* Event of the last returned (Event, Vec<u8>)
    ret,      \* Vec<u8> of the last returned (Event, Vec<u8>)
    out,      \* concatenation of all returned vectors
    nret      \* number of parse_event calls that returned

vars == <<stream, pos, pc, item, buf, acc, c, wrap, res, event, ret, out, nret>>

----------------------------------------------------------------------------
(* Items of the source *)

ErrItem == -1
NoneItem == -2

ESC == 27

Byte == 0 .. 255

IsByte(x) == x >= 0

(* Byte literals of the grammar *)
TAB == 9
LF == 10
CR == 13
CTRL_A == 1
CTRL_Z == 26
FS == 28
US == 31
DEL == 127
PLUS == 43
CH_0 == 48
CH_4 == 52
CH_9 == 57
SEMI == 59
LT == 60
CH_A == 65
CH_B == 66
CH_C == 67
CH_D == 68
CH_E == 69
CH_F == 70
CH_H == 72
CH_M == 77
CH_O == 79
CH_P == 80
CH_S == 83
LBRACKET == 91
CH_a == 97
CH_m == 109
TILDE == 126
FINAL_LO == 64

U8_MAX == 255
U16_MAX == 65535

----------------------------------------------------------------------------
(* Event, Key, MouseEvent, MouseButton *)

Key(name, n) ==
    [tag |-> "Key", name |-> name, btn |-> "-", n |-> n, x |-> 0, y |-> 0, bytes |-> <<>>]

Mouse(name, btn, x, y) ==
    [tag |-> "Mouse", name |-> name, btn |-> btn, n |-> 0, x |-> x, y |-> y, bytes |-> <<>>]

Unsupported(bytes) ==
    [tag |-> "Unsupported", name |-> "-", btn |-> "-", n |-> 0, x |-> 0, y |-> 0, bytes |-> bytes]

Ok(ev) == [ok |-> TRUE, ev |-> ev]

Err == [ok |-> FALSE, ev |-> Unsupported(<<>>)]

----------------------------------------------------------------------------
(* The iterator and its inspect adapter *)

\* iter.next(): the next item, or None at the end of the source
Next_item == IF pos < Len(stream) THEN stream[pos + 1] ELSE NoneItem

\* the source after iter.next()
Advance == IF pos < Len(stream) THEN pos + 1 ELSE pos

\* mutant of Inspect: the adapter left out, nothing read is captured
Inspect_none(b, x) == b

\* the inspect closure: an Ok byte is pushed on buf, an Err is not
Inspect(b, x) == IF IsByte(x) THEN Append(b, x) ELSE b

\* pop(iter): None becomes Err(UnexpectedEof)
pop(x) == IF x = NoneItem THEN ErrItem ELSE x

----------------------------------------------------------------------------
(* str::from_utf8 and String::from_utf8: validation of a whole byte buffer *)

IsCont(b) == b >= 128 /\ b <= 191

\* mutant of Utf8Width: the four-byte forms not known
Utf8Width_bmp(b) ==
    IF b < 128 THEN 1
    ELSE IF b >= 194 /\ b <= 223 THEN 2
    ELSE IF b >= 224 /\ b <= 239 THEN 3
    ELSE 0

\* width of the character a lead byte opens, 0 for a byte that opens none
Utf8Width(b) ==
    IF b < 128 THEN 1
    ELSE IF b >= 194 /\ b <= 223 THEN 2
    ELSE IF b >= 224 /\ b <= 239 THEN 3
    ELSE IF b >= 240 /\ b <= 244 THEN 4
    ELSE 0

\* the second byte's range depends on the lead byte (no overlong forms, no
\* surrogates, nothing above U+10FFFF)
SecondOk(b1, b2) ==
    IF b1 = 224 THEN b2 >= 160 /\ b2 <= 191
    ELSE IF b1 = 237 THEN b2 >= 128 /\ b2 <= 159
    ELSE IF b1 = 240 THEN b2 >= 144 /\ b2 <= 191
    ELSE IF b1 = 244 THEN b2 >= 128 /\ b2 <= 143
    ELSE IsCont(b2)

RECURSIVE from_utf8(_)
from_utf8(s) ==
    IF s = <<>> THEN TRUE
    ELSE LET w == Utf8Width(s[1]) IN
         /\ w > 0
         /\ Len(s) >= w
         /\ w >= 2 => SecondOk(s[1], s[2])
         /\ w >= 3 => IsCont(s[3])
         /\ w >= 4 => IsCont(s[4])
         /\ from_utf8(SubSeq(s, w + 1, Len(s)))

\* st.chars().next().unwrap(): the code point of the first character of a
\* valid buffer
first_char(s) ==
    LET w == Utf8Width(s[1]) IN
    IF w = 1 THEN s[1]
    ELSE IF w = 2 THEN (s[1] - 192) * 64 + (s[2] - 128)
    ELSE IF w = 3 THEN (s[1] - 224) * 4096 + (s[2] - 128) * 64 + (s[3] - 128)
    ELSE (s[1] - 240) * 262144 + (s[2] - 128) * 4096 + (s[3] - 128) * 64 + (s[4] - 128)

----------------------------------------------------------------------------
(* str::split(';') and str::parse for unsigned integers *)

\* index of the first ';' of s at or after i, Len(s) + 1 when there is none
RECURSIVE FindSemi(_, _)
FindSemi(s, i) ==
    IF i > Len(s) THEN i
    ELSE IF s[i] = SEMI THEN i
    ELSE FindSemi(s, i + 1)

\* the fields of s: always at least one, an empty s gives one empty field
RECURSIVE split(_)
split(s) ==
    LET i == FindSemi(s, 1) IN
    IF i > Len(s) THEN <<s>>
    ELSE <<SubSeq(s, 1, i - 1)>> \o split(SubSeq(s, i + 1, Len(s)))

IsDigit(b) == b >= CH_0 /\ b <= CH_9

\* digits accumulated most significant first with a checked multiply and add:
\* -1 on a non-digit or on overflow of max
RECURSIVE ParseDigits(_, _, _, _)
ParseDigits(s, i, val, max) ==
    IF i > Len(s) THEN val
    ELSE IF ~IsDigit(s[i]) THEN -1
    ELSE LET v == val * 10 + (s[i] - CH_0) IN
         IF v > max THEN -1 ELSE ParseDigits(s, i + 1, v, max)

\* mutant of parse: an empty field read as 0
parse_empty_zero(s, max) ==
    LET digits == IF s # <<>> /\ s[1] = PLUS THEN Tail(s) ELSE s IN
    IF digits = <<>> THEN 0 ELSE ParseDigits(digits, 1, 0, max)

\* n.parse::<uN>(): -1 for Err; a leading '+' is accepted, an empty digit
\* string is not
parse(s, max) ==
    LET digits == IF s # <<>> /\ s[1] = PLUS THEN Tail(s) ELSE s IN
    IF digits = <<>> THEN -1 ELSE ParseDigits(digits, 1, 0, max)

\* the k-th item of nums (pop(nums) called k times in a row): -1 when the
\* iterator is exhausted or the field does not parse
num(fields, k, max) ==
    IF k > Len(fields) THEN -1 ELSE parse(fields[k], max)

----------------------------------------------------------------------------
(* Pure parts of the decoder *)

\* mutant of ctrl_letter: the offset taken from 0x0 instead of 0x1
ctrl_letter_off(b) == b + CH_a

\* (c as u8 - 0x1 + b'a') as char
ctrl_letter(b) == b - CTRL_A + CH_a

\* (c as u8 - 0x1C + b'4') as char
ctrl_digit(b) == b - FS + CH_4

\* try_parse_event's arms for a first byte that is not ESC and is ASCII
single_byte(b) ==
    IF b = LF \/ b = CR THEN Key("Char", LF)
    ELSE IF b = TAB THEN Key("Char", TAB)
    ELSE IF b = DEL THEN Key("Backspace", 0)
    ELSE IF b >= CTRL_A /\ b <= CTRL_Z THEN Key("Ctrl", ctrl_letter(b))
    ELSE IF b >= FS /\ b <= US THEN Key("Ctrl", ctrl_digit(b))
    ELSE IF b = 0 THEN Key("Null", 0)
    ELSE Key("Char", b)

\* b1 as i8
as_i8(b) == IF b >= 128 THEN b - 256 ELSE b

\* b1 as i8 - 32 leaves the range of i8
x10_overflows(b1) == as_i8(b1) - 32 < -128

\* b1 as i8 - 32, wrapped to i8 where the build does not check overflow
x10_cb(b1) ==
    LET d == as_i8(b1) - 32 IN IF d < -128 THEN d + 256 ELSE d

\* cb & 0b11 on the two's complement bits of an i8
and_3(cb) == ((cb + 256) % 256) % 4

\* cb & 0x40 on the two's complement bits of an i8
and_0x40(cb) == ((((cb + 256) % 256) \div 64) % 2) * 64

saturating_sub(b, k) == IF b > k THEN b - k ELSE 0

\* the X10 mouse report, from the three bytes popped
x10_event(b1, b2, b3) ==
    LET cb == x10_cb(b1)
        cx == saturating_sub(b2, 32)
        cy == saturating_sub(b3, 32)
        class == and_3(cb)
    IN  IF class = 0 THEN
            IF and_0x40(cb) # 0 THEN Mouse("Press", "WheelUp", cx, cy)
            ELSE Mouse("Press", "Left", cx, cy)
        ELSE IF class = 1 THEN
            IF and_0x40(cb) # 0 THEN Mouse("Press", "WheelDown", cx, cy)
            ELSE Mouse("Press", "Middle", cx, cy)
        ELSE IF class = 2 THEN Mouse("Press", "Right", cx, cy)
        ELSE Mouse("Release", "-", cx, cy)

\* mutant of xterm_button: 1 and 2 taken in the order of the MouseButton enum
xterm_button_enum_order(cb) ==
    IF cb = 0 THEN "Left"
    ELSE IF cb = 1 THEN "Right"
    ELSE IF cb = 2 THEN "Middle"
    ELSE IF cb = 64 THEN "WheelUp"
    ELSE "WheelDown"

xterm_button(cb) ==
    IF cb = 0 THEN "Left"
    ELSE IF cb = 1 THEN "Middle"
    ELSE IF cb = 2 THEN "Right"
    ELSE IF cb = 64 THEN "WheelUp"
    ELSE "WheelDown"

\* the xterm mouse report, from the accumulated text and the terminator
xterm_event(text, term) ==
    IF ~from_utf8(text) THEN Err
    ELSE LET nums == split(text)
             cb == num(nums, 1, U16_MAX)
             cx == num(nums, 2, U16_MAX)
             cy == num(nums, 3, U16_MAX)
         IN  IF cb < 0 \/ cx < 0 \/ cy < 0 THEN Err
             ELSE IF cb \in {0, 1, 2, 64, 65} THEN
                 IF term = CH_M THEN Ok(Mouse("Press", xterm_button(cb), cx, cy))
                 ELSE IF term = CH_m THEN Ok(Mouse("Release", "-", cx, cy))
                 ELSE Err
             ELSE IF cb = 32 THEN Ok(Mouse("Hold", "-", cx, cy))
             ELSE IF cb = 3 THEN Ok(Mouse("Release", "-", cx, cy))
             ELSE Err

\* the rxvt mouse report, from the accumulated text
rxvt_event(text) ==
    IF ~from_utf8(text) THEN Err
    ELSE LET nums == split(text)
             cb == num(nums, 1, U16_MAX)
             cx == num(nums, 2, U16_MAX)
             cy == num(nums, 3, U16_MAX)
         IN  IF cb < 0 \/ cx < 0 \/ cy < 0 THEN Err
             ELSE IF cb = 32 THEN Ok(Mouse("Press", "Left", cx, cy))
             ELSE IF cb = 33 THEN Ok(Mouse("Press", "Middle", cx, cy))
             ELSE IF cb = 34 THEN Ok(Mouse("Press", "Right", cx, cy))
             ELSE IF cb = 35 THEN Ok(Mouse("Release", "-", cx, cy))
             ELSE IF cb = 64 THEN Ok(Mouse("Hold", "-", cx, cy))
             ELSE IF cb = 96 \/ cb = 97 THEN Ok(Mouse("Press", "WheelUp", cx, cy))
             ELSE Err

\* mutant of special_key: the gap between F5 (15) and F6 (17) forgotten
special_key_nogap(n) ==
    IF n = 1 \/ n = 7 THEN Ok(Key("Home", 0))
    ELSE IF n = 2 THEN Ok(Key("Insert", 0))
    ELSE IF n = 3 THEN Ok(Key("Delete", 0))
    ELSE IF n = 4 \/ n = 8 THEN Ok(Key("End", 0))
    ELSE IF n = 5 THEN Ok(Key("PageUp", 0))
    ELSE IF n = 6 THEN Ok(Key("PageDown", 0))
    ELSE IF n >= 11 /\ n <= 22 THEN Ok(Key("F", n - 10))
    ELSE Err

\* the key of a special key code
special_key(n) ==
    IF n = 1 \/ n = 7 THEN Ok(Key("Home", 0))
    ELSE IF n = 2 THEN Ok(Key("Insert", 0))
    ELSE IF n = 3 THEN Ok(Key("Delete", 0))
    ELSE IF n = 4 \/ n = 8 THEN Ok(Key("End", 0))
    ELSE IF n = 5 THEN Ok(Key("PageUp", 0))
    ELSE IF n = 6 THEN Ok(Key("PageDown", 0))
    ELSE IF n >= 11 /\ n <= 15 THEN Ok(Key("F", n - 10))
    ELSE IF n >= 17 /\ n <= 21 THEN Ok(Key("F", n - 11))
    ELSE IF n >= 23 /\ n <= 24 THEN Ok(Key("F", n - 12))
    ELSE Err

\* the special key escape, from the accumulated text: num is a u8 (Key::F
\* takes a u8), and a second field is refused
special_event(text) ==
    IF ~from_utf8(text) THEN Err
    ELSE LET nums == split(text)
             n == num(nums, 1, U8_MAX)
         IN  IF n < 0 THEN Err
             ELSE IF Len(nums) > 1 THEN Err
             ELSE special_key(n)

\* the match on the byte that ended the numbered loop
numbered_event(text, term) ==
    IF term = CH_M THEN rxvt_event(text)
    ELSE IF term = TILDE THEN special_event(text)
    ELSE Err

----------------------------------------------------------------------------
(* The state machine *)

\* the states of a run on the source `input`
InitOn(input) ==
    /\ stream = input
    /\ pos = 0
    /\ pc = "idle"
    /\ item = 0
    /\ buf = <<>>
    /\ acc = <<>>
    /\ c = 0
    /\ wrap = "Char"
    /\ res = Err
    /\ event = Unsupported(<<>>)
    /\ ret = <<>>
    /\ out = <<>>
    /\ nret = 0

\* one iter.next() through the inspect adapter, yielding x
Read(x) ==
    /\ x = Next_item
    /\ pos' = Advance
    /\ buf' = Inspect(buf, x)

\* the sub-decoder returns r to parse_event
Finish(r) ==
    /\ res' = r
    /\ pc' = "ret"

\* parse_utf8_char(b, iter) entered, its result to be wrapped in w
EnterUtf8(b, w) ==
    IF b < 128 THEN Finish(Ok(Key(w, b))) /\ UNCHANGED <<acc, wrap>>
    ELSE /\ pc' = "utf8"
         /\ acc' = <<b>>
         /\ wrap' = w
         /\ UNCHANGED res

\* the caller hands parse_event the next byte of the source and the source
parse_event_call ==
    /\ pc = "idle"
    /\ pos < Len(stream)
    /\ IsByte(stream[pos + 1])
    /\ item' = stream[pos + 1]
    /\ pos' = pos + 1
    /\ buf' = <<stream[pos + 1]>>
    /\ acc' = <<>>
    /\ pc' = "try"
    /\ UNCHANGED <<stream, c, wrap, res, event, ret, out, nret>>

\* match item
try_parse_event ==
    /\ pc = "try"
    /\ IF item = ESC THEN pc' = "esc" /\ UNCHANGED <<acc, wrap, res>>
       ELSE IF item < 128 THEN Finish(Ok(single_byte(item))) /\ UNCHANGED <<acc, wrap>>
       ELSE EnterUtf8(item, "Char")
    /\ UNCHANGED <<stream, pos, item, buf, c, event, ret, out, nret>>

\* ESC: match iter.next()
try_parse_event_esc ==
    /\ pc = "esc"
    /\ \E x \in {Next_item} :
        /\ Read(x)
        /\ IF x = CH_O THEN pc' = "escO" /\ UNCHANGED <<acc, wrap, res>>
           ELSE IF x = LBRACKET THEN pc' = "csi" /\ UNCHANGED <<acc, wrap, res>>
           ELSE IF IsByte(x) THEN EnterUtf8(x, "Alt")
           ELSE IF x = ErrItem THEN Finish(Err) /\ UNCHANGED <<acc, wrap>>
           ELSE Finish(Ok(Unsupported(<<ESC>>))) /\ UNCHANGED <<acc, wrap>>
    /\ UNCHANGED <<stream, item, c, event, ret, out, nret>>

\* ESC O: match iter.next()
try_parse_event_escO ==
    /\ pc = "escO"
    /\ \E x \in {Next_item} :
        /\ Read(x)
        /\ IF x >= CH_P /\ x <= CH_S THEN Finish(Ok(Key("F", 1 + x - CH_P)))
           ELSE IF IsByte(x) THEN Finish(Ok(Unsupported(<<ESC, CH_0, x>>)))
           ELSE IF x = ErrItem THEN Finish(Err)
           ELSE Finish(Ok(Unsupported(<<ESC, CH_0>>)))
    /\ UNCHANGED <<stream, item, acc, c, wrap, event, ret, out, nret>>

\* parse_csi: match pop(iter)?
parse_csi ==
    /\ pc = "csi"
    /\ \E x \in {Next_item} :
        /\ Read(x)
        /\ IF pop(x) = ErrItem THEN Finish(Err) /\ UNCHANGED <<acc, c>>
           ELSE IF x = LBRACKET THEN pc' = "csi2" /\ UNCHANGED <<acc, c, res>>
           ELSE IF x = CH_D THEN Finish(Ok(Key("Left", 0))) /\ UNCHANGED <<acc, c>>
           ELSE IF x = CH_C THEN Finish(Ok(Key("Right", 0))) /\ UNCHANGED <<acc, c>>
           ELSE IF x = CH_A THEN Finish(Ok(Key("Up", 0))) /\ UNCHANGED <<acc, c>>
           ELSE IF x = CH_B THEN Finish(Ok(Key("Down", 0))) /\ UNCHANGED <<acc, c>>
           ELSE IF x = CH_H THEN Finish(Ok(Key("Home", 0))) /\ UNCHANGED <<acc, c>>
           ELSE IF x = CH_F THEN Finish(Ok(Key("End", 0))) /\ UNCHANGED <<acc, c>>
           ELSE IF x = CH_M THEN pc' = "x10" /\ acc' = <<>> /\ UNCHANGED <<c, res>>
           ELSE IF x = LT THEN pc' = "xterm" /\ acc' = <<>> /\ UNCHANGED <<c, res>>
           ELSE IF IsDigit(x) THEN pc' = "num" /\ acc' = <<x>> /\ c' = x /\ UNCHANGED res
           ELSE Finish(Err) /\ UNCHANGED <<acc, c>>
    /\ UNCHANGED <<stream, item, wrap, event, ret, out, nret>>

\* ESC [ [: match iter.next()
parse_csi_bracket ==
    /\ pc = "csi2"
    /\ \E x \in {Next_item} :
        /\ Read(x)
        /\ IF x >= CH_A /\ x <= CH_E THEN Finish(Ok(Key("F", 1 + x - CH_A)))
           ELSE Finish(Err)
    /\ UNCHANGED <<stream, item, acc, c, wrap, event, ret, out, nret>>

\* ESC [ M: b1, b2, b3 popped one after the other, then the event computed
\* (`b1 as i8 - 32` wrapping where it overflows: a build without overflow checks)
parse_csi_x10 ==
    /\ pc = "x10"
    /\ \E x \in {Next_item} :
        /\ Read(x)
        /\ IF pop(x) = ErrItem THEN Finish(Err) /\ UNCHANGED acc
           ELSE IF Len(acc) < 2 THEN acc' = Append(acc, x) /\ UNCHANGED <<pc, res>>
           ELSE Finish(Ok(x10_event(acc[1], acc[2], x))) /\ UNCHANGED acc
    /\ UNCHANGED <<stream, item, c, wrap, event, ret, out, nret>>

\* ESC [ M: `b1 as i8 - 32` panics where it overflows, in a build with
\* overflow checks; the call never returns
parse_csi_x10_panic ==
    /\ pc = "x10"
    /\ Len(acc) = 2
    /\ x10_overflows(acc[1])
    /\ \E x \in {Next_item} :
        /\ IsByte(x)
        /\ Read(x)
    /\ pc' = "panic"
    /\ UNCHANGED <<stream, item, acc, c, wrap, res, event, ret, out, nret>>

\* ESC [ <: the loop that pops until 'm' or 'M', then the event
parse_csi_xterm ==
    /\ pc = "xterm"
    /\ \E x \in {Next_item} :
        /\ Read(x)
        /\ IF pop(x) = ErrItem THEN Finish(Err) /\ UNCHANGED acc
           ELSE IF x = CH_m \/ x = CH_M THEN Finish(xterm_event(acc, x)) /\ UNCHANGED acc
           ELSE acc' = Append(acc, x) /\ UNCHANGED <<pc, res>>
    /\ UNCHANGED <<stream, item, c, wrap, event, ret, out, nret>>

\* ESC [ digit: the loop `while let Some(n) = iter.next()`, then match c
parse_csi_numbered ==
    /\ pc = "num"
    /\ \E x \in {Next_item} :
        /\ Read(x)
        /\ IF x = NoneItem THEN Finish(numbered_event(acc, c)) /\ UNCHANGED <<acc, c>>
           ELSE IF x = ErrItem THEN Finish(Err) /\ UNCHANGED <<acc, c>>
           ELSE IF x < FINAL_LO \/ x > TILDE THEN
                acc' = Append(acc, x) /\ c' = x /\ UNCHANGED <<pc, res>>
           ELSE Finish(numbered_event(acc, x)) /\ c' = x /\ UNCHANGED acc
    /\ UNCHANGED <<stream, item, wrap, event, ret, out, nret>>

\* parse_utf8_char: one turn of the loop
parse_utf8_char ==
    /\ pc = "utf8"
    /\ \E x \in {Next_item} :
        /\ Read(x)
        /\ IF ~IsByte(x) THEN Finish(Err) /\ UNCHANGED acc
           ELSE LET bytes == Append(acc, x) IN
                IF from_utf8(bytes) THEN Finish(Ok(Key(wrap, first_char(bytes)))) /\ acc' = bytes
                ELSE IF Len(bytes) >= 4 THEN Finish(Err) /\ acc' = bytes
                ELSE acc' = bytes /\ UNCHANGED <<pc, res>>
    /\ UNCHANGED <<stream, item, c, wrap, event, ret, out, nret>>

\* parse_event: or_else turns an Err into Unsupported(buf), then (e, buf)
parse_event_return ==
    /\ pc = "ret"
    /\ event' = IF res.ok THEN res.ev ELSE Unsupported(buf)
    /\ ret' = buf
    /\ out' = out \o buf
    /\ nret' = nret + 1
    /\ pc' = "idle"
    /\ UNCHANGED <<stream, pos, item, buf, acc, c, wrap, res>>

Next ==
    \/ parse_event_call
    \/ try_parse_event
    \/ try_parse_event_esc
    \/ try_parse_event_escO
    \/ parse_csi
    \/ parse_csi_bracket
    \/ parse_csi_x10
    \/ parse_csi_x10_panic
    \/ parse_csi_xterm
    \/ parse_csi_numbered
    \/ parse_utf8_char
    \/ parse_event_return

----------------------------------------------------------------------------
(* Byte sources *)

\* the sources made of at most n pieces of P, one after the other
RECURSIVE Pieced(_, _)
Pieced(P, n) ==
    IF n = 0 THEN {<<>>}
    ELSE LET S == Pieced(P, n - 1) IN S \cup {s \o q : s \in S, q \in P}

CSI == <<ESC, LBRACKET>>

\* complete, truncated and unrecognized sequences, and a failing read
Pieces ==
    { <<ESC>>, CSI, <<ESC, CH_O>>, <<ESC, CH_O, CH_P>>, <<ESC, CH_O, 120>>,
      CSI \o <<120>>, CSI \o <<CH_A>>, CSI \o <<LBRACKET>>, CSI \o <<LBRACKET, CH_E>>,
      CSI \o <<CH_M>>, CSI \o <<CH_M, 33, 40>>, CSI \o <<CH_M, 33, 40, 50>>,
      CSI \o <<CH_M, 128, 40, 50>>,
      CSI \o <<LT>>, CSI \o <<LT, CH_0, SEMI, 53>>,
      CSI \o <<LT, CH_0, SEMI, 53, SEMI, 49, CH_0, CH_M>>,
      CSI \o <<51>>, CSI \o <<51, TILDE>>, CSI \o <<51, SEMI, 50, TILDE>>,
      CSI \o <<51, 50, SEMI, 49, SEMI, 49, CH_M>>,
      <<CH_a>>, <<CR>>, <<ESC, CH_a>>, <<ESC, 195, 169>>,
      <<195>>, <<195, 169>>, <<226, 130>>, <<226, 130, 172>>,
      <<240, 159, 152, 128>>, <<255>>, <<128, 128, 128, 128>>,
      <<ErrItem>> }

MaxPieces == 2

Init == \E input \in Pieced(Pieces, MaxPieces) : InitOn(input)

Spec == Init /\ [][Next]_vars

\* every action of the decoder is taken on one of these
Cover == Pieced(Pieces, 1)

\* the decimal digits of n
RECURSIVE Dec(_)
Dec(n) == IF n < 10 THEN <<CH_0 + n>> ELSE Dec(n \div 10) \o <<CH_0 + (n % 10)>>

\* the fields of fs joined with ';'
RECURSIVE Join(_)
Join(fs) ==
    IF fs = <<>> THEN <<>>
    ELSE IF Len(fs) = 1 THEN fs[1]
    ELSE fs[1] \o <<SEMI>> \o Join(Tail(fs))

\* what may follow a sequence in the source: nothing, a byte, a failing read
Rest == {<<>>, <<CH_A>>, <<ErrItem>>}

(* single first bytes *)
ByteSources == {<<b>> \o r : b \in Byte, r \in Rest}

SpecBytes == (\E input \in Cover \cup ByteSources : InitOn(input)) /\ [][Next]_vars

(* X10 mouse reports: every button byte, coordinates around the offset 32 *)
X10Coords == {0, 31, 32, 33, 255}

X10Seq(b1, b2, b3) == CSI \o <<CH_M, b1, b2, b3>>

X10Sources == {X10Seq(b1, b2, b3) \o r : b1 \in Byte, b2 \in X10Coords, b3 \in X10Coords, r \in {<<>>, <<CH_A>>}}

SpecX10 == (\E input \in Cover \cup X10Sources : InitOn(input)) /\ [][Next]_vars

(* xterm mouse reports *)
XtermCb == {0, 1, 2, 3, 4, 31, 32, 33, 63, 64, 65, 66, 96, 255, 256, 65535}

XtermCoords == {0, 1, 5, 10, 65535}

XtermSeq(cb, cx, cy, t) == CSI \o <<LT>> \o Dec(cb) \o <<SEMI>> \o Dec(cx) \o <<SEMI>> \o Dec(cy) \o <<t>>

XtermSources ==
    {XtermSeq(cb, cx, cy, t) \o r :
        cb \in XtermCb, cx \in XtermCoords, cy \in XtermCoords, t \in {CH_M, CH_m}, r \in {<<>>, <<CH_A>>}}

SpecXterm == (\E input \in Cover \cup XtermSources : InitOn(input)) /\ [][Next]_vars

(* special key escapes *)
MaxNum == 300

MaxLead == 30

KeySeq(digits) == CSI \o digits \o <<TILDE>>

\* one parameter: every code up to MaxNum, codes written with a leading zero,
\* and a code that is 1 modulo 2^16
KeyDigits ==
    {Dec(n) : n \in 0 .. MaxNum} \cup {<<CH_0>> \o Dec(n) : n \in 0 .. MaxLead} \cup {Dec(65537)}

\* a second parameter after ';': a modifier, nothing, a letter outside the
\* final range, one more ';'
KeySecond == {<<>>, <<50>>, <<53>>, <<SEMI>>, <<50, SEMI, 51>>, <<33>>}

KeySources ==
    {KeySeq(d) \o r : d \in KeyDigits, r \in {<<>>, <<CH_A>>}}
    \cup {KeySeq(Dec(n) \o <<SEMI>> \o m) \o r :
            n \in {0, 1, 3, 5, 11, 24, 99}, m \in KeySecond, r \in {<<>>, <<CH_A>>}}

SpecKey == (\E input \in Cover \cup KeySources : InitOn(input)) /\ [][Next]_vars

(* mouse reports with any number of parameters *)
MaxFields == 4

\* a field: empty, an integer, an integer with a sign, an integer followed by
\* a blank, an integer above 65535
ParamFields == {<<>>, <<51, 50>>, <<PLUS, 53>>, <<51, 32>>, <<54, 53, 53, 51, 54>>}

ParamTexts == {Join(fs) : fs \in UNION {[1 .. k -> ParamFields] : k \in 0 .. MaxFields}}

ParamSources ==
    {CSI \o <<LT>> \o text \o <<t>> : text \in ParamTexts, t \in {CH_M, CH_m}}
    \cup {CSI \o text \o <<CH_M>> : text \in ParamTexts}

SpecParams == (\E input \in Cover \cup ParamSources : InitOn(input)) /\ [][Next]_vars

(* encoded characters *)

\* the bytes of a character (str::bytes of the test's string)
Utf8Encode(cp) ==
    IF cp < 128 THEN <<cp>>
    ELSE IF cp < 2048 THEN <<192 + (cp \div 64), 128 + (cp % 64)>>
    ELSE IF cp < 65536 THEN
        <<224 + (cp \div 4096), 128 + ((cp \div 64) % 64), 128 + (cp % 64)>>
    ELSE <<240 + (cp \div 262144), 128 + ((cp \div 4096) % 64),
           128 + ((cp \div 64) % 64), 128 + (cp % 64)>>

\* a char: a code point that is no surrogate
IsChar(cp) == cp >= 0 /\ cp <= 1114111 /\ ~(cp >= 55296 /\ cp <= 57343)

Stride == 2003

\* all of ASCII, the first and last character of each width, the characters
\* of the test's string, and one character in every Stride
CharSample ==
    (0 .. 127)
    \cup {128, 2047, 2048, 55295, 57344, 65535, 65536, 1114111}
    \cup {233, 375, 164, 163, 8364, 249}
    \cup ({k * Stride : k \in 0 .. (1114111 \div Stride)} \ (55296 .. 57343))

\* what follows the character: nothing, a stray continuation byte, a second
\* character, a failing read
CharRest == {<<>>, <<169>>, <<195, 169>>, <<ErrItem>>}

CharSources ==
    {Utf8Encode(cp) \o r : cp \in CharSample, r \in CharRest}
    \cup {<<ESC>> \o Utf8Encode(cp) \o r : cp \in CharSample, r \in CharRest}

SpecUtf8 == (\E input \in Cover \cup CharSources : InitOn(input)) /\ [][Next]_vars

(* sources that never bring the terminator *)
LongestGrammar == 36

MaxPad == LongestGrammar + 4

Repeat(b, n) == [i \in 1 .. n |-> b]

LongSources ==
    {CSI \o <<LT>> \o Repeat(CH_0, n) : n \in 0 .. MaxPad}
    \cup {CSI \o <<CH_0>> \o Repeat(SEMI, n) : n \in 0 .. MaxPad}

SpecLong == (\E input \in Cover \cup LongSources : InitOn(input)) /\ [][Next]_vars

----------------------------------------------------------------------------
(* Properties *)

\* s is the start of the source
StartsWith(s) == Len(stream) >= Len(s) /\ SubSeq(stream, 1, Len(s)) = s

\* the first call has just returned
FirstReturned == pc = "idle" /\ nret = 1

\* some call has just returned
Returned == pc = "idle" /\ nret >= 1

(* C6 *)

C6_Expected(b) ==
    IF b = 10 \/ b = 13 THEN Key("Char", 10)
    ELSE IF b = 9 THEN Key("Char", 9)
    ELSE IF b = 127 THEN Key("Backspace", 0)
    ELSE IF b = 0 THEN Key("Null", 0)
    ELSE IF b >= 1 /\ b <= 26 THEN Key("Ctrl", 97 + (b - 1))
    ELSE IF b >= 28 /\ b <= 31 THEN Key("Ctrl", 52 + (b - 28))
    ELSE Key("Char", b)

\* C6: a first byte in 0x00..0x7F other than ESC decides the event alone, by
\* the dispatch table, and nothing is pulled from the source: the returned
\* vector is that byte, and the source stands where it stood (a failing read
\* or a byte waiting there is left for the next call).
C6_SingleByteDispatch ==
    /\ (FirstReturned /\ stream[1] < 128 /\ stream[1] # 27) =>
            /\ pos = 1
            /\ ret = <<stream[1]>>
            /\ event = C6_Expected(stream[1])
    /\ (Returned /\ ret[1] < 128 /\ ret[1] # 27) =>
            /\ Len(ret) = 1
            /\ event = C6_Expected(ret[1])

\* C6 witness: 0x1C decoded as Ctrl('4') with a failing read left untouched
C6_Witness ==
    /\ FirstReturned
    /\ stream = <<28, ErrItem>>
    /\ event = Key("Ctrl", 52)
    /\ pos = 1

(* C7 *)

C7_Expected(b1, b2, b3) ==
    LET cb == (IF b1 >= 128 THEN b1 - 256 ELSE b1) - 32
        bits == (cb + 256) % 256
        cx == IF b2 - 32 > 0 THEN b2 - 32 ELSE 0
        cy == IF b3 - 32 > 0 THEN b3 - 32 ELSE 0
        wheel == (bits \div 64) % 2 = 1
    IN  CASE bits % 4 = 0 -> Mouse("Press", IF wheel THEN "WheelUp" ELSE "Left", cx, cy)
          [] bits % 4 = 1 -> Mouse("Press", IF wheel THEN "WheelDown" ELSE "Middle", cx, cy)
          [] bits % 4 = 2 -> Mouse("Press", "Right", cx, cy)
          [] bits % 4 = 3 -> Mouse("Release", "-", cx, cy)

\* where the call returns (the subtraction wrapped or did not overflow), the
\* event is the one of the class table
C7_X10Table ==
    (FirstReturned /\ Len(stream) >= 6 /\ SubSeq(stream, 1, 3) = CSI \o <<CH_M>>
            /\ IsByte(stream[4]) /\ IsByte(stream[5]) /\ IsByte(stream[6])) =>
            /\ ret = SubSeq(stream, 1, 6)
            /\ event = C7_Expected(stream[4], stream[5], stream[6])

\* the call is lost only where b1 as i8 - 32 overflows: b1 in 0x80..0x9F
C7_PanicOnlyOnOverflow == pc = "panic" => (buf[4] >= 128 /\ buf[4] <= 159)

\* C7 (as claimed): for all bytes b1, b2, b3, decoding ESC [ M b1 b2 b3 reads
\* exactly those three bytes, never overflows or panics on b1 as i8 - 32, and
\* yields the Mouse event of the class table at the saturated coordinates.
C7_X10FullRange ==
    /\ pc # "panic"
    /\ (FirstReturned /\ Len(stream) >= 6 /\ SubSeq(stream, 1, 3) = CSI \o <<CH_M>>
            /\ IsByte(stream[4]) /\ IsByte(stream[5]) /\ IsByte(stream[6])) =>
            /\ ret = SubSeq(stream, 1, 6)
            /\ event = C7_Expected(stream[4], stream[5], stream[6])

(* C8 *)

C8_Expected(cb, cx, cy, t) ==
    IF cb \in {0, 1, 2, 64, 65} THEN
        IF t = CH_M THEN
            Mouse("Press",
                  CASE cb = 0 -> "Left" [] cb = 1 -> "Middle" [] cb = 2 -> "Right"
                    [] cb = 64 -> "WheelUp" [] cb = 65 -> "WheelDown",
                  cx, cy)
        ELSE Mouse("Release", "-", cx, cy)
    ELSE IF cb = 32 THEN Mouse("Hold", "-", cx, cy)
    ELSE IF cb = 3 THEN Mouse("Release", "-", cx, cy)
    ELSE Unsupported(XtermSeq(cb, cx, cy, t))

\* C8: decoding ESC [ < cb;cx;cy t, with cb, cx, cy decimal integers of
\* 0..65535 and t one of M and m, consumes that sequence and yields Press of
\* the button of cb in {0,1,2,64,65} for M and Release for m, Hold for cb = 32
\* and Release for cb = 3 whatever t is, and Unsupported for any other cb.
C8_XtermMapping ==
    (FirstReturned /\ StartsWith(CSI \o <<LT>>)) =>
        \A cb \in XtermCb, cx \in XtermCoords, cy \in XtermCoords, t \in {CH_M, CH_m} :
            StartsWith(XtermSeq(cb, cx, cy, t)) =>
                /\ ret = XtermSeq(cb, cx, cy, t)
                /\ event.tag = C8_Expected(cb, cx, cy, t).tag
                /\ event.tag = "Mouse" => event = C8_Expected(cb, cx, cy, t)

\* C8 witness: "0;5;10" m decoded as Release(5, 10), and "2;1;1" M as a
\* press of the right button
C8_Witness ==
    /\ FirstReturned
    /\ \/ StartsWith(XtermSeq(0, 5, 10, CH_m)) /\ event = Mouse("Release", "-", 5, 10)
       \/ StartsWith(XtermSeq(2, 1, 1, CH_M)) /\ event = Mouse("Press", "Right", 1, 1)

(* C9 *)

C9_Mapped(n) == n \in {1, 2, 3, 4, 5, 6, 7, 8} \cup (11 .. 15) \cup (17 .. 21) \cup (23 .. 24)

C9_Expected(n) ==
    IF n = 1 \/ n = 7 THEN Key("Home", 0)
    ELSE IF n = 2 THEN Key("Insert", 0)
    ELSE IF n = 3 THEN Key("Delete", 0)
    ELSE IF n = 4 \/ n = 8 THEN Key("End", 0)
    ELSE IF n = 5 THEN Key("PageUp", 0)
    ELSE IF n = 6 THEN Key("PageDown", 0)
    ELSE IF n >= 11 /\ n <= 15 THEN Key("F", n - 10)
    ELSE IF n >= 17 /\ n <= 21 THEN Key("F", n - 11)
    ELSE Key("F", n - 12)

\* the returned vector is ESC [ digit params ~ with a ';' among the params
C9_HasSecondParam(v) ==
    /\ Len(v) >= 5
    /\ SubSeq(v, 1, 2) = CSI
    /\ v[3] >= 48 /\ v[3] <= 57
    /\ v[Len(v)] = 126
    /\ \A i \in 4 .. Len(v) - 1 : v[i] < 64 \/ v[i] > 126
    /\ \E i \in 4 .. Len(v) - 1 : v[i] = 59

\* C9: decoding ESC [ n ~ with n one decimal integer consumes that sequence
\* and yields the key of n for the mapped codes (1..8, 11..15, 17..21, 23..24)
\* and Unsupported for every other n, a code above 255 included (it is not
\* wrapped onto a mapped code); and a sequence ESC [ ... ~ with a ';' among
\* its parameters yields Unsupported with all the consumed bytes, never a Key.
C9_SpecialKey ==
    /\ (FirstReturned /\ StartsWith(CSI)) =>
        \A n \in (0 .. MaxNum) \cup {65537}, z \in {<<>>, <<CH_0>>} :
            StartsWith(KeySeq(z \o Dec(n))) =>
                /\ ret = KeySeq(z \o Dec(n))
                /\ IF C9_Mapped(n) THEN event = C9_Expected(n) ELSE event.tag = "Unsupported"
    /\ (FirstReturned /\ C9_HasSecondParam(stream)) => ret = stream /\ event = Unsupported(stream)
    /\ (Returned /\ C9_HasSecondParam(ret)) => event = Unsupported(ret)

\* C9 witness: ESC [ 3 ~ is Delete, ESC [ 21 ~ is F10, and Shift+Delete
\* (ESC [ 3 ; 2 ~) is Unsupported with its six bytes
C9_Witness ==
    /\ FirstReturned
    /\ \/ stream = KeySeq(<<51>>) /\ event = Key("Delete", 0)
       \/ stream = KeySeq(<<50, 49>>) /\ event = Key("F", 10)
       \/ stream = KeySeq(<<51, 59, 50>>) /\ event = Unsupported(stream) /\ Len(ret) = 6

(* C10 *)

\* the source is ESC [ < text (M or m), whole
C10_IsXterm ==
    /\ Len(stream) >= 4
    /\ SubSeq(stream, 1, 3) = CSI \o <<LT>>
    /\ stream[Len(stream)] \in {77, 109}
    /\ \A i \in 4 .. Len(stream) - 1 : IsByte(stream[i]) /\ stream[i] \notin {77, 109}

\* the source is ESC [ digit ... M, whole, with no final byte before the M
C10_IsRxvt ==
    /\ Len(stream) >= 4
    /\ SubSeq(stream, 1, 2) = CSI
    /\ stream[3] >= 48 /\ stream[3] <= 57
    /\ stream[Len(stream)] = 77
    /\ \A i \in 4 .. Len(stream) - 1 : IsByte(stream[i]) /\ (stream[i] < 64 \/ stream[i] > 126)

\* the parameter text of such a source
C10_Text ==
    IF C10_IsXterm THEN SubSeq(stream, 4, Len(stream) - 1)
    ELSE SubSeq(stream, 3, Len(stream) - 1)

C10_Semis(text) == {i \in 1 .. Len(text) : text[i] = 59}

C10_NFields(text) == Cardinality(C10_Semis(text)) + 1

\* the position of the k-th ';' of text; 0 for k = 0, Len(text) + 1 past the last
C10_Cut(text, k) ==
    IF k = 0 THEN 0
    ELSE IF k > Cardinality(C10_Semis(text)) THEN Len(text) + 1
    ELSE CHOOSE i \in C10_Semis(text) : Cardinality({j \in C10_Semis(text) : j <= i}) = k

C10_Field(text, k) == SubSeq(text, C10_Cut(text, k - 1) + 1, C10_Cut(text, k) - 1)

\* f is an integer of 0..65535 in decimal digits, a '+' allowed before them
\* (the value read with the leading zeros dropped)
C10_IsU16(f) ==
    LET d == IF f # <<>> /\ f[1] = 43 THEN Tail(f) ELSE f
        nz == {i \in 1 .. Len(d) : d[i] # 48}
        first == IF nz = {} THEN Len(d) ELSE CHOOSE i \in nz : \A j \in nz : i <= j
        sig == SubSeq(d, first, Len(d))
    IN  /\ d # <<>>
        /\ \A i \in 1 .. Len(d) : d[i] >= 48 /\ d[i] <= 57
        /\ Len(sig) <= 5
        /\ Len(sig) = 5 =>
             (sig[1] - 48) * 10000 + (sig[2] - 48) * 1000 + (sig[3] - 48) * 100
                + (sig[4] - 48) * 10 + (sig[5] - 48) <= 65535

C10_ThreeIntegersFirst(text) ==
    /\ C10_NFields(text) >= 3
    /\ \A k \in 1 .. 3 : C10_IsU16(C10_Field(text, k))

\* C10 (as claimed): a mouse report whose text is not exactly three decimal
\* integers (fewer fields, more fields, a field that is no number) is
\* Unsupported, never Mouse.
C10_ExactlyThree ==
    (FirstReturned /\ (C10_IsXterm \/ C10_IsRxvt)) =>
        (~(C10_NFields(C10_Text) = 3 /\ C10_ThreeIntegersFirst(C10_Text)) => event.tag = "Unsupported")

\* C10 (amended): a mouse report with fewer than three fields, or with one of
\* its first three fields not an integer of 0..65535, is Unsupported with all
\* the bytes of the sequence, never Mouse; the fields after the third are not
\* looked at: with three integers first and the button code 32 (mapped in
\* both dialects), the report is a Mouse event whatever follows.
C10_FirstThree ==
    (FirstReturned /\ (C10_IsXterm \/ C10_IsRxvt)) =>
        /\ ret = stream
        /\ ~C10_ThreeIntegersFirst(C10_Text) => event = Unsupported(stream)
        /\ (C10_ThreeIntegersFirst(C10_Text) /\ C10_Field(C10_Text, 1) = <<51, 50>>) =>
                event.tag = "Mouse"

\* C10 witness: two fields only ("32;32" M in the rxvt dialect) is
\* Unsupported, and "32;+5;32;" m with its trailing field is Hold(5, 32)
C10_Witness ==
    /\ FirstReturned
    /\ \/ stream = CSI \o <<51, 50, 59, 51, 50, 77>> /\ event = Unsupported(stream)
       \/ /\ stream = CSI \o <<60, 51, 50, 59, 43, 53, 59, 51, 50, 59, 109>>
          /\ event = Mouse("Hold", "-", 5, 32)

(* C5 *)

\* the ASCII control characters that try_parse_event does not hand to the
\* UTF-8 decoder as they are
C5_Control(cp) == (cp < 32 /\ cp # 9 /\ cp # 10) \/ cp = 127

\* C5 (as claimed): every encoded character, of one to four bytes, comes out
\* of parse_event as Key::Char of that character.
C5_EveryCharIsChar ==
    FirstReturned =>
        \A cp \in CharSample : StartsWith(Utf8Encode(cp)) => event = Key("Char", cp)

\* C5 (amended): the UTF-8 decoder, given the first byte of an encoded
\* character of one to four bytes and a source yielding the rest, returns that
\* character and consumes the rest of it and nothing after it: after ESC the
\* result is Alt of the character ('O' and '[' open other grammars), and as a
\* first byte the result is Char of the character for every character that
\* is not an ASCII control character other than '\n' and '\t'.
C5_Utf8RoundTrip ==
    FirstReturned =>
        \A cp \in CharSample :
            /\ (StartsWith(Utf8Encode(cp)) /\ ~C5_Control(cp)) =>
                    /\ ret = Utf8Encode(cp)
                    /\ pos = Len(ret)
                    /\ event = Key("Char", cp)
            /\ (StartsWith(<<ESC>> \o Utf8Encode(cp)) /\ cp # 79 /\ cp # 91) =>
                    /\ ret = <<ESC>> \o Utf8Encode(cp)
                    /\ pos = Len(ret)
                    /\ event = Key("Alt", cp)

\* C5 witness: the euro sign, three bytes, decoded with a stray continuation
\* byte after it left in the source; the last character, four bytes, after ESC
C5_Witness ==
    /\ FirstReturned
    /\ \/ stream = <<226, 130, 172, 169>> /\ event = Key("Char", 8364) /\ pos = 3
       \/ stream = <<ESC, 244, 143, 191, 191>> /\ event = Key("Alt", 1114111)

(* C4 *)

\* outside the two accumulation loops a call pulls at most 5 bytes (ESC [ M
\* b1 b2 b3)
C4_OtherGrammarsBounded ==
    (pc # "idle" /\ Len(buf) - 1 > 5) =>
        /\ SubSeq(buf, 1, 2) = CSI
        /\ buf[3] = 60 \/ (buf[3] >= 48 /\ buf[3] <= 57)

\* the accumulation loops take the whole of a source that never brings the
\* terminator
C4_LoopTakesAll ==
    (FirstReturned /\ stream \in LongSources) => ret = stream /\ event = Unsupported(stream)

\* C4 (as claimed): one call pulls at most the length of the longest
\* recognized grammar from the source, whatever the source holds.
C4_BoundedReads == pc # "idle" => Len(buf) - 1 <= LongestGrammar

(* C1 *)

\* the call ended on the end of the source or a failing read, with the
\* sequence v read so far still incomplete
C1_Truncated(v) ==
    /\ pos = Len(stream) \/ stream[pos] = ErrItem
    /\ \/ v = <<ESC>>
       \/ v = CSI
       \/ Len(v) >= 3 /\ Len(v) < 6 /\ SubSeq(v, 1, 3) = CSI \o <<77>>
       \/ Len(v) >= 3 /\ SubSeq(v, 1, 3) = CSI \o <<60>>
            /\ \A i \in 4 .. Len(v) : v[i] # 77 /\ v[i] # 109
       \/ Len(v) >= 3 /\ SubSeq(v, 1, 2) = CSI /\ v[3] >= 48 /\ v[3] <= 57
            /\ \A i \in 4 .. Len(v) : v[i] < 64 \/ v[i] > 126
       \/ v[1] >= 128 /\ ~from_utf8(v)

\* the truncated half of C1: such a call returns Unsupported
C1_TruncatedUnsupported == (Returned /\ C1_Truncated(ret)) => event.tag = "Unsupported"

\* C1 (as claimed): every call of parse_event returns Ok with one Event, and
\* a call cut short by the end of the source or a failing read returns
\* Unsupported.
C1_NeverFails == pc # "panic" /\ C1_TruncatedUnsupported

(* C2 *)

\* C2 (as claimed): the payload of a returned Unsupported is the returned
\* vector of consumed bytes.
C2_PayloadIsConsumed == (Returned /\ event.tag = "Unsupported") => event.bytes = ret

(* C3 *)

\* the bytes of the items consumed from the source so far
ConsumedBytes == SelectSeq(SubSeq(stream, 1, pos), IsByte)

\* C3: the vectors returned so far, then the bytes captured by the call in
\* progress, are the bytes consumed from the source, in order, none twice and
\* none left out; a returned vector starts with the first byte and is not
\* empty; ESC [ x is returned as its 3 bytes with the source 3 bytes on.
C3_ByteAccounting ==
    /\ out \o (IF pc = "idle" THEN <<>> ELSE buf) = ConsumedBytes
    /\ Returned =>
            /\ ret # <<>>
            /\ ret[1] = item
            /\ Len(out) >= Len(ret)
            /\ SubSeq(out, Len(out) - Len(ret) + 1, Len(out)) = ret
    /\ (FirstReturned /\ StartsWith(CSI \o <<120>>)) => ret = CSI \o <<120>> /\ pos = 3

\* C3 witness: ESC [ x then ESC O P decoded in two calls, the two vectors
\* making up the source
C3_Witness ==
    /\ pc = "idle"
    /\ nret = 2
    /\ stream = CSI \o <<120, ESC, CH_O, CH_P>>
    /\ ret = <<ESC, CH_O, CH_P>>
    /\ out = stream

====
